---- MODULE Spec2Model ----
(***************************************************************************)
(* MergeInspector (defensive_pandas_merge/merge_inspector.py) as a state   *)
(* machine.                                                                *)
(*                                                                         *)
(* A DataFrame is modelled by its key column: a sequence of key values,    *)
(* one per row, NULL standing for NaN/None.  The join key is one column    *)
(* (named by `on`); a row's other columns are represented by the row's     *)
(* position.  DataFrames and report dicts are objects: `frames` and        *)
(* `dicts` map object identities to their current contents, so that a      *)
(* copy and an alias are different things.                                 *)
(*                                                                         *)
(* Percentages are integers in units of 1/Scale of a percent, so that the  *)
(* source's round(x, 4) and round(x, 2) are exact integer computations.    *)
(***************************************************************************)
EXTENDS Integers, Sequences, FiniteSets, TLC

VARIABLES
    pc,        \* "start": before MergeInspector(...); "live": the object exists;
               \* "dead": __init__ raised, no object was returned
    frames,    \* DataFrame objects: identity -> rows (key column)
    dicts,     \* dict objects: identity -> mapping
    args,      \* the caller's constructor arguments
    self,      \* the MergeInspector's attributes (name -> value)
    result,    \* what the last call did: op, outcome, exception, returned value
    got,       \* the reference the caller holds from its latest get_report(), and
               \* whether it was returned before any perform_merge call
    calls,     \* perform_merge calls so far, saturating at ManyCalls
    ctor       \* the contents of the caller's tables when __init__ ran

vars == <<pc, frames, dicts, args, self, result, got, calls, ctor>>

-----------------------------------------------------------------------------
(* Values *)

NULL == 0
None == -1
Scale == 10000
ManyCalls == 2

\* object identities
CallerLeft == 1
CallerRight == 2
SelfLeft == 3
SelfRight == 4
SelfReport == 1
NoRef == 0

FrameIds == {CallerLeft, CallerRight, SelfLeft, SelfRight}
DictIds == {SelfReport, SelfReport + 1, SelfReport + 2}

EmptyDict == [k \in {} |-> None]

Get(d, k, default) == IF k \in DOMAIN d THEN d[k] ELSE default

Put(d, k, v) == [x \in DOMAIN d \cup {k} |-> IF x = k THEN v ELSE d[x]]

Min(a, b) == IF a <= b THEN a ELSE b

\* p percent in model units
Pct(p) == p * Scale

-----------------------------------------------------------------------------
(* The DataFrame operations the inspector calls *)

\* df.shape[0]
Shape0(df) == Len(df)

\* df.dropna(subset=keys)
DropNA(df) == SelectSeq(df, LAMBDA k : k # NULL)

\* df[df[keys].isnull().any(axis=1)]
NullRows(df) == SelectSeq(df, LAMBDA k : k = NULL)

Occurrences(df, k) == Cardinality({i \in 1..Len(df) : df[i] = k})

\* df[df.duplicated(subset=keys, keep=False)]: every occurrence of a repeated key
DuplicatedRows(df) == SelectSeq(df, LAMBDA k : Occurrences(df, k) > 1)

\* df[keys].drop_duplicates(): first occurrences, in row order
DropDuplicates(df) ==
    LET first == {i \in 1..Len(df) : \A j \in 1..(i - 1) : df[j] # df[i]}
        RECURSIVE Build(_)
        Build(i) == IF i > Len(df) THEN <<>>
                    ELSE IF i \in first THEN <<df[i]>> \o Build(i + 1)
                    ELSE Build(i + 1)
    IN  Build(1)

\* df.head(n)
HeadRows(df, n) == SubSeq(df, 1, Min(n, Len(df)))

\* df.to_dict('records'): one {column: value} record per row
ToDictRecords(df, col) == [i \in 1..Len(df) |-> [c \in {col} |-> df[i]]]

\* round(num / den * 100, ndigits), in model units; ties go to the even digit
RoundPercent(num, den, ndigits) ==
    LET unit == IF ndigits = 4 THEN 1 ELSE 100
        n == num * 100 * Scale
        d == den * unit
        q == n \div d
        r == n % d
        rounded == IF 2 * r < d THEN q
                   ELSE IF 2 * r > d THEN q + 1
                   ELSE IF q % 2 = 0 THEN q ELSE q + 1
    IN  rounded * unit

-----------------------------------------------------------------------------
(* __init__ and _perform_checks *)

ThresholdNames == {"duplicated_keys", "null_keys", "percentage_matched_keys", "rows_duplicated"}

DefaultThresholds ==
    [n \in ThresholdNames |->
        IF n = "percentage_matched_keys" THEN Pct(100) ELSE Pct(0)]

\* error_thresholds or {...}: an omitted (None) or empty mapping is replaced
ErrorThresholds(a) ==
    IF "error_thresholds" \in DOMAIN a /\ DOMAIN a["error_thresholds"] # {}
    THEN a["error_thresholds"]
    ELSE DefaultThresholds

\* raise_on_errors or []
RaiseOnErrors(a) ==
    IF "raise_on_errors" \in DOMAIN a THEN a["raise_on_errors"] ELSE <<>>

\* left_on / right_on: merge_kwargs.get(side, merge_kwargs.get('on')), a single
\* name promoted to a one-element list
KeyList(kw, side) == <<Get(kw, side, Get(kw, "on", "")) >>

\* the guarded percentage of lines 66-69
DuplicateKeysPercentage(dup, total) ==
    IF total # 0 THEN RoundPercent(dup, total, 4) ELSE 0

\* the unguarded percentage of lines 97-99; the division needs rows # 0
NullKeysPercentage(nulls, rows) == RoundPercent(nulls, rows, 4)

\* variant: the flag fires when either side exceeds the limit
DuplicatedKeysErrorEither(leftPct, rightPct, thr) ==
    leftPct > Get(thr, "duplicated_keys", 0) \/ rightPct > Get(thr, "duplicated_keys", 0)

DuplicatedKeysError(leftPct, rightPct, thr) ==
    leftPct > Get(thr, "duplicated_keys", 0) /\ rightPct > Get(thr, "duplicated_keys", 0)

NullKeysError(leftPct, rightPct, thr) ==
    leftPct > Get(thr, "null_keys", 0) \/ rightPct > Get(thr, "null_keys", 0)

\* variant: every duplicated row is counted, not every duplicated key
DuplicateKeysRows(df) == DuplicatedRows(DropNA(df))

DuplicateKeys(df) == DropDuplicates(DuplicatedRows(DropNA(df)))

TotalKeys(df) == Shape0(DropDuplicates(DropNA(df)))

DuplicatedKeysEntry(df, on) ==
    [number |-> Shape0(DuplicateKeys(df)),
     percentage |-> DuplicateKeysPercentage(Shape0(DuplicateKeys(df)), TotalKeys(df)),
     cases |-> ToDictRecords(HeadRows(DuplicateKeys(df), 3), on[1])]

NullKeysEntry(df, on) ==
    [number |-> Shape0(NullRows(df)),
     percentage |-> NullKeysPercentage(Shape0(NullRows(df)), Shape0(df)),
     cases |-> ToDictRecords(HeadRows(NullRows(df), 3), on[1])]

\* lines 34-86: the report up to and including duplicated_keys_error
ChecksBeforeDivision(report, left, right, kw, thr) ==
    LET r1 == Put(report, "left_number_of_rows_before_merge", Shape0(left))
        r2 == Put(r1, "right_number_of_rows_before_merge", Shape0(right))
        le == DuplicatedKeysEntry(left, KeyList(kw, "left_on"))
        re == DuplicatedKeysEntry(right, KeyList(kw, "right_on"))
        r3 == Put(r2, "left_duplicated_keys_in_keys", le)
        r4 == Put(r3, "right_duplicated_keys_in_keys", re)
    IN  Put(r4, "duplicated_keys_error",
            DuplicatedKeysError(le.percentage, re.percentage, thr))

\* lines 97-98 divide by the row counts: ZeroDivisionError on an empty table
ChecksDivideByZero(left, right) == Shape0(left) = 0 \/ Shape0(right) = 0

\* lines 88-116
ChecksAfterDivision(report, left, right, kw, thr) ==
    LET le == NullKeysEntry(left, KeyList(kw, "left_on"))
        re == NullKeysEntry(right, KeyList(kw, "right_on"))
        r1 == Put(report, "left_null_keys_in_keys", le)
        r2 == Put(r1, "right_null_keys_in_keys", re)
    IN  Put(r2, "null_keys_error", NullKeysError(le.percentage, re.percentage, thr))

\* variant: the inspector keeps the caller's object
CopyAlias(fr, src, fresh) == [frames |-> fr, ref |-> src]

\* df.copy(): a new object holding the same rows
Copy(fr, src, fresh) == [frames |-> [fr EXCEPT ![fresh] = fr[src]], ref |-> fresh]

NoException == [message |-> <<>>, full_report |-> EmptyDict, report |-> NoRef]

Result(op, outcome) ==
    [op |-> op, outcome |-> outcome, exception |-> NoException,
     ref |-> NoRef, table |-> {}]

\* MergeInspector(df_left, df_right, error_thresholds, raise_on_errors, **merge_kwargs)
Construct ==
    /\ pc = "start"
    /\ LET cl == Copy(frames, CallerLeft, SelfLeft)
           cr == Copy(cl.frames, CallerRight, SelfRight)
           left == cr.frames[cl.ref]
           right == cr.frames[cr.ref]
           kw == args["merge_kwargs"]
           thr == ErrorThresholds(args)
           before == ChecksBeforeDivision(EmptyDict, left, right, kw, thr)
           attrs == [df_left |-> cl.ref,
                     df_right |-> cr.ref,
                     merge_kwargs |-> kw,
                     error_thresholds |-> thr,
                     raise_on_errors |-> RaiseOnErrors(args),
                     report |-> SelfReport,
                     left_on |-> KeyList(kw, "left_on"),
                     right_on |-> KeyList(kw, "right_on")]
       IN  /\ frames' = cr.frames
           /\ ctor' = [left |-> frames[CallerLeft], right |-> frames[CallerRight]]
           /\ IF ChecksDivideByZero(left, right)
              THEN /\ pc' = "dead"
                   /\ dicts' = [dicts EXCEPT ![SelfReport] = before]
                   /\ self' = self
                   /\ result' = Result("__init__", "ZeroDivisionError")
              ELSE /\ pc' = "live"
                   /\ dicts' = [dicts EXCEPT ![SelfReport] =
                                   ChecksAfterDivision(before, left, right, kw, thr)]
                   /\ self' = attrs
                   /\ result' = Result("__init__", "returned")
    /\ UNCHANGED <<args, got, calls>>

-----------------------------------------------------------------------------
(* perform_merge, _analyze_merge, _expected_row_count, _check_for_errors *)

How(kw) == Get(kw, "how", "inner")

\* df_left.merge(df_right, **merge_kwargs): the rows of the result, each a pair
\* <<left row, right row>> with 0 for the missing side.  Null keys match each
\* other, as they do in pandas.
Merge(left, right, kw) ==
    LET both == {<<i, j>> \in (1..Len(left)) \X (1..Len(right)) : left[i] = right[j]}
        leftOnly == {<<i, 0>> : i \in {i \in 1..Len(left) :
                                          \A j \in 1..Len(right) : left[i] # right[j]}}
        rightOnly == {<<0, j>> : j \in {j \in 1..Len(right) :
                                           \A i \in 1..Len(left) : left[i] # right[j]}}
    IN  CASE How(kw) = "inner" -> both
          [] How(kw) = "left" -> both \cup leftOnly
          [] How(kw) = "right" -> both \cup rightOnly
          [] How(kw) = "outer" -> both \cup leftOnly \cup rightOnly
          [] How(kw) = "left_anti" -> leftOnly

\* the order of an outer merge's keys: ascending, null last
KeyBefore(a, b) == IF a = NULL THEN FALSE ELSE IF b = NULL THEN TRUE ELSE a < b

RECURSIVE SortKeys(_)
SortKeys(S) ==
    IF S = {} THEN <<>>
    ELSE LET m == CHOOSE x \in S : \A y \in S \ {x} : KeyBefore(x, y)
         IN  <<m>> \o SortKeys(S \ {m})

Range(s) == {s[i] : i \in 1..Len(s)}

\* left_keys.merge(right_keys, how='outer', indicator=True)
KeysMerged(leftKeys, rightKeys) ==
    LET keys == SortKeys(Range(leftKeys) \cup Range(rightKeys))
    IN  [i \in 1..Len(keys) |->
            [key |-> keys[i],
             _merge |-> IF keys[i] \notin Range(rightKeys) THEN "left_only"
                        ELSE IF keys[i] \notin Range(leftKeys) THEN "right_only"
                        ELSE "both"]]

Indicated(km, tag) ==
    LET sel == SelectSeq(km, LAMBDA r : r._merge = tag)
    IN  [i \in 1..Len(sel) |-> sel[i].key]

PercentageMatchedKeys(matched, total) ==
    IF total # 0 THEN RoundPercent(matched, total, 2) ELSE 0

\* variant: a match rate equal to the limit is an error
PercentageOfMatchedKeysErrorNotAbove(pct, thr) ==
    pct <= Get(thr, "percentage_matched_keys", Pct(100))

PercentageOfMatchedKeysError(pct, thr) ==
    pct < Get(thr, "percentage_matched_keys", Pct(100))

\* variant: an inner join is expected to keep the left row count
ExpectedRowCountLeft(kw, report) ==
    CASE How(kw) \in {"inner", "left"} -> report["left_number_of_rows_before_merge"]
      [] How(kw) = "right" -> report["right_number_of_rows_before_merge"]
      [] OTHER -> None

ExpectedRowCount(kw, report) ==
    CASE How(kw) = "inner" -> Min(report["left_number_of_rows_before_merge"],
                                  report["right_number_of_rows_before_merge"])
      [] How(kw) = "left" -> report["left_number_of_rows_before_merge"]
      [] How(kw) = "right" -> report["right_number_of_rows_before_merge"]
      [] How(kw) = "outer" -> None
      [] OTHER -> None

\* `if expected_rows and ...`: None and 0 are both false
Inflated(expected, actual) == expected # None /\ expected # 0 /\ actual > expected

NumberOfRowsDuplicated(expected, actual) ==
    IF Inflated(expected, actual) THEN actual - expected ELSE 0

DuplicatedRowsPercentage(expected, actual) ==
    IF Inflated(expected, actual)
    THEN RoundPercent(actual - expected, expected, 2)
    ELSE 0

\* variant: an inflation equal to the limit is an error
RowsDuplicatedErrorAtLeast(pct, thr) == pct >= Get(thr, "rows_duplicated", 0)

RowsDuplicatedError(pct, thr) == pct > Get(thr, "rows_duplicated", 0)

AnalyzeMerge(report, left, right, s) ==
    LET km == KeysMerged(DropDuplicates(left), DropDuplicates(right))
        matched == Shape0(Indicated(km, "both"))
        pct == PercentageMatchedKeys(matched, Len(km))
        r1 == Put(report, "number_of_matched_keys", matched)
        r2 == Put(r1, "percentage_of_matched_keys", pct)
        r3 == Put(r2, "number_of_left_keys_without_match",
                  [number |-> Shape0(Indicated(km, "left_only")),
                   cases |-> ToDictRecords(HeadRows(Indicated(km, "left_only"), 3),
                                           s.left_on[1])])
        r4 == Put(r3, "number_of_right_keys_without_match",
                  [number |-> Shape0(Indicated(km, "right_only")),
                   cases |-> ToDictRecords(HeadRows(Indicated(km, "right_only"), 3),
                                           s.right_on[1])])
        r5 == Put(r4, "percentage_of_matched_keys_error",
                  PercentageOfMatchedKeysError(pct, s.error_thresholds))
        r6 == Put(r5, "matched_keys_error", r5["percentage_of_matched_keys_error"])
        expected == ExpectedRowCount(s.merge_kwargs, r6)
        actual == r6["number_of_rows_after_merge"]
        r7 == Put(r6, "number_of_rows_duplicated", NumberOfRowsDuplicated(expected, actual))
    IN  Put(r7, "rows_duplicated_error",
            RowsDuplicatedError(DuplicatedRowsPercentage(expected, actual),
                                s.error_thresholds))

FlagFields == {"duplicated_keys_error", "null_keys_error", "percentage_of_matched_keys_error",
               "matched_keys_error", "rows_duplicated_error"}

NumberFields == {"left_number_of_rows_before_merge", "right_number_of_rows_before_merge",
                 "number_of_rows_after_merge", "number_of_matched_keys",
                 "percentage_of_matched_keys", "number_of_rows_duplicated"}

\* bool(report.get(name)): a missing field is None, a number is true when not
\* zero, and the nested entries are non-empty dicts
Truthy(report, name) ==
    /\ name \in DOMAIN report
    /\ CASE name \in FlagFields -> report[name]
         [] name \in NumberFields -> report[name] # 0
         [] OTHER -> TRUE

\* variant: every flag of the report is fatal, selected or not
ErrorsTriggeredAnyFlag(selectors, report) ==
    SelectSeq(<<"duplicated_keys_error", "null_keys_error", "matched_keys_error",
                "rows_duplicated_error">>, LAMBDA e : Truthy(report, e))

ErrorsTriggered(selectors, report) ==
    SelectSeq(selectors, LAMBDA e : Truthy(report, e))

\* variant: the exception carries a snapshot of the report
RaiseWithCopy(ds, ref, triggered) ==
    [dicts |-> [ds EXCEPT ![SelfReport + 2] = ds[ref]],
     exception |-> [message |-> [i \in 1..Len(triggered) |-> <<triggered[i], "is True">>],
                    full_report |-> ds[ref],
                    report |-> SelfReport + 2]]

\* MergeInspectorException(full_message, self.report): the message, and the
\* report dict itself
Raise(ds, ref, triggered) ==
    [dicts |-> ds,
     exception |-> [message |-> [i \in 1..Len(triggered) |-> <<triggered[i], "is True">>],
                    full_report |-> ds[ref],
                    report |-> ref]]

PerformMerge ==
    /\ pc = "live"
    /\ LET left == frames[self.df_left]
           right == frames[self.df_right]
           merged == Merge(left, right, self.merge_kwargs)
           r1 == Put(dicts[self.report], "number_of_rows_after_merge", Cardinality(merged))
           r2 == AnalyzeMerge(r1, left, right, self)
           ds == [dicts EXCEPT ![self.report] = r2]
           triggered == ErrorsTriggered(self.raise_on_errors, r2)
           raised == Raise(ds, self.report, triggered)
       IN  /\ self' = Put(self, "df_merged", merged)
           /\ IF triggered # <<>>
              THEN /\ dicts' = raised.dicts
                   /\ result' = [Result("perform_merge", "MergeInspectorException")
                                   EXCEPT !.exception = raised.exception]
              ELSE /\ dicts' = ds
                   /\ result' = [Result("perform_merge", "returned")
                                   EXCEPT !.table = merged]
    /\ calls' = Min(calls + 1, ManyCalls)
    /\ UNCHANGED <<pc, frames, args, got, ctor>>

\* variant: get_report returns a snapshot
ReportCopy(ds, s) == [dicts |-> [ds EXCEPT ![SelfReport + 1] = ds[s.report]], ref |-> SelfReport + 1]

\* get_report(): return self.report
ReportRef(ds, s) == [dicts |-> ds, ref |-> s.report]

GetReport ==
    /\ pc = "live"
    /\ LET r == ReportRef(dicts, self)
       IN  /\ dicts' = r.dicts
           /\ got' = [ref |-> r.ref, early |-> calls = 0]
           /\ result' = [Result("get_report", "returned") EXCEPT !.ref = r.ref]
    /\ UNCHANGED <<pc, frames, args, self, calls, ctor>>

\* The caller, after construction, overwrites the key column of one of its own
\* tables with nulls (df[key] = None).
CallerWrites(id) ==
    /\ pc = "live"
    /\ id \in {CallerLeft, CallerRight}
    /\ frames' = [frames EXCEPT ![id] = [i \in 1..Len(frames[id]) |-> NULL]]
    /\ result' = Result("caller_write", "returned")
    /\ UNCHANGED <<pc, dicts, args, self, got, calls, ctor>>

Next ==
    \/ Construct
    \/ PerformMerge
    \/ GetReport
    \/ \E id \in {CallerLeft, CallerRight} : CallerWrites(id)

-----------------------------------------------------------------------------
(* Inputs *)

MaxRows == 2
MaxRowsRight == 1
ChecksLeftRows == 3
ChecksRightRows == 2
KeysLeftRows == 5
KeysRightRows == 1

Tables(values, maxRows) == UNION {[1..k -> values] : k \in 0..maxRows}

KeyColumn == "loyalty_member"

Hows == {"inner", "left", "right", "outer", "left_anti"}

\* on=..., with and without how=...
MergeKwargs(hows) ==
    {[on |-> KeyColumn]} \cup {[on |-> KeyColumn, how |-> h] : h \in hows}

InitWith(lefts, rights, kwargs, thresholds, selectors) ==
    /\ pc = "start"
    /\ \E l \in lefts, r \in rights :
           frames = [id \in FrameIds |-> CASE id = CallerLeft -> l
                                          [] id = CallerRight -> r
                                          [] OTHER -> <<>>]
    /\ dicts = [id \in DictIds |-> EmptyDict]
    /\ \E kw \in kwargs, t \in thresholds, sel \in selectors :
           args = [merge_kwargs |-> kw, error_thresholds |-> t, raise_on_errors |-> sel]
    /\ self = EmptyDict
    /\ result = Result("none", "none")
    /\ got = [ref |-> NoRef, early |-> FALSE]
    /\ calls = 0
    /\ ctor = [left |-> <<>>, right |-> <<>>]

AllFlags ==
    <<"duplicated_keys_error", "null_keys_error", "percentage_of_matched_keys_error",
      "matched_keys_error", "rows_duplicated_error">>

Selectors ==
    {<<>>,
     <<"rows_duplicated_error">>,
     <<"rows_duplicated_error", "matched_keys_error">>,
     <<"duplicated_keys_error", "null_keys_error">>,
     <<"number_of_matched_keys", "no_such_field">>}

\* error_thresholds: omitted, every limit at 100 %, every limit at 50 %, and
\* a mapping that sets rows_duplicated (33.33 %) and leaves the other keys out
Thresholds ==
    {EmptyDict,
     [n \in ThresholdNames |-> Pct(100)],
     [n \in ThresholdNames |-> Pct(50)],
     [n \in {"rows_duplicated"} |-> 333300]}

\* the whole life of an inspector and of its caller, small tables
Init ==
    InitWith(Tables({NULL, 1, 2}, MaxRows), Tables({NULL, 1, 2}, MaxRowsRight),
             MergeKwargs(Hows), {EmptyDict},
             {<<>>, <<"rows_duplicated_error", "matched_keys_error">>})

Spec == Init /\ [][Next]_vars

\* the inspector's own operations, every choice of selectors
NextInspector ==
    \/ Construct
    \/ PerformMerge
    \/ GetReport

InitErrors ==
    InitWith(Tables({NULL, 1, 2}, MaxRows), Tables({NULL, 1, 2}, MaxRowsRight),
             MergeKwargs(Hows), {EmptyDict}, Selectors)

SpecErrors == InitErrors /\ [][NextInspector]_vars

\* construction and perform_merge over larger tables and several thresholds
NextCalls ==
    \/ Construct
    \/ PerformMerge

InitChecks ==
    InitWith(Tables({NULL, 1, 2}, ChecksLeftRows), Tables({NULL, 1, 2}, ChecksRightRows),
             MergeKwargs(Hows), Thresholds, {AllFlags})

SpecChecks == InitChecks /\ [][NextCalls]_vars

\* construction and perform_merge over left tables with up to three distinct keys
InitKeys ==
    InitWith(Tables({NULL, 1, 2, 3}, KeysLeftRows), Tables({NULL, 1, 2, 3}, KeysRightRows),
             {[on |-> KeyColumn]}, {EmptyDict}, {<<>>})

SpecKeys == InitKeys /\ [][NextCalls]_vars

-----------------------------------------------------------------------------
(* Properties *)

Report == dicts[SelfReport]

Live == pc = "live"

Analyzed == Live /\ "rows_duplicated_error" \in DOMAIN Report

\* the limit in force for a check: the supplied one, else the default
Threshold(name) ==
    IF name \in DOMAIN args.error_thresholds
    THEN args.error_thresholds[name]
    ELSE DefaultThresholds[name]

KeySet(df) == {df[i] : i \in 1..Len(df)}

PreJoinFields ==
    {"left_number_of_rows_before_merge", "right_number_of_rows_before_merge",
     "left_duplicated_keys_in_keys", "right_duplicated_keys_in_keys", "duplicated_keys_error",
     "left_null_keys_in_keys", "right_null_keys_in_keys", "null_keys_error"}

PostJoinFields ==
    {"number_of_rows_after_merge", "number_of_matched_keys", "percentage_of_matched_keys",
     "number_of_left_keys_without_match", "number_of_right_keys_without_match",
     "percentage_of_matched_keys_error", "matched_keys_error",
     "number_of_rows_duplicated", "rows_duplicated_error"}

Selected == {args.raise_on_errors[i] : i \in 1..Len(args.raise_on_errors)}

RaisedFailure == result.outcome = "MergeInspectorException"

(* C1: MergeInspectorException is raised by perform_merge exactly when some
   name of raise_on_errors maps to a truthy field of the report after the
   post-join analysis; with no selector it is never raised, a true flag that
   is not selected does not raise, and neither the constructor nor any other
   operation raises it. *)
C1_RaisedIffSelectedTruthy ==
    /\ result.op = "perform_merge" =>
           (RaisedFailure <=> \E e \in Selected : Truthy(Report, e))
    /\ result.op # "perform_merge" => ~RaisedFailure
    /\ Selected = {} => ~RaisedFailure

\* matched_keys_error is true, only rows_duplicated_error is selected and is
\* false: perform_merge returned
C1_Witness ==
    /\ result.op = "perform_merge"
    /\ result.outcome = "returned"
    /\ args.raise_on_errors = <<"rows_duplicated_error">>
    /\ Report["matched_keys_error"]
    /\ ~Report["rows_duplicated_error"]

(* C2: constructing the inspector with an empty table on one side completes
   without a division error and records a duplicate-key percentage of 0 for
   that side. *)
C2_EmptyTableConstructs ==
    /\ (result.op = "__init__" /\ ctor.left = <<>> /\ ctor.right # <<>>) =>
           /\ result.outcome = "returned"
           /\ Report["left_duplicated_keys_in_keys"].percentage = 0
    /\ (result.op = "__init__" /\ ctor.right = <<>> /\ ctor.left # <<>>) =>
           /\ result.outcome = "returned"
           /\ Report["right_duplicated_keys_in_keys"].percentage = 0

(* C3: whenever perform_merge raises, the failure carries the very report
   object get_report returns, that report holds number_of_rows_after_merge
   and every post-join field with this merge's values, and the message names
   '<selector> is True' for exactly the triggered selectors. *)
C3_FailureCarriesReport ==
    RaisedFailure =>
        LET e == result.exception
            left == frames[self.df_left]
            right == frames[self.df_right]
        IN  /\ e.report = self.report
            /\ e.report = ReportRef(dicts, self).ref
            /\ PostJoinFields \subseteq DOMAIN dicts[e.report]
            /\ PreJoinFields \subseteq DOMAIN dicts[e.report]
            /\ dicts[e.report]["number_of_rows_after_merge"] = Cardinality(self.df_merged)
            /\ dicts[e.report]["number_of_matched_keys"] =
                   Cardinality(KeySet(left) \cap KeySet(right))
            /\ dicts[e.report]["matched_keys_error"] =
                   dicts[e.report]["percentage_of_matched_keys_error"]
            /\ {e.message[i][1] : i \in 1..Len(e.message)} =
                   {s \in Selected : Truthy(dicts[e.report], s)}
            /\ \A i \in 1..Len(e.message) : e.message[i][2] = "is True"
            /\ e.full_report = dicts[e.report]

\* the test's case: two selectors, one of them triggered
C3_Witness ==
    /\ RaisedFailure
    /\ args.raise_on_errors = <<"rows_duplicated_error", "matched_keys_error">>
    /\ result.exception.message = << <<"matched_keys_error", "is True">> >>
    /\ ~dicts[result.exception.report]["rows_duplicated_error"]

(* C4: duplicated_keys_error is true only when both sides' duplicate-key
   percentages exceed the duplicated_keys limit, null_keys_error is true when
   either side's null-key percentage exceeds the null_keys limit. *)
C4_AndOrAsymmetry ==
    Live =>
        /\ Report["duplicated_keys_error"] <=>
               /\ Report["left_duplicated_keys_in_keys"].percentage > Threshold("duplicated_keys")
               /\ Report["right_duplicated_keys_in_keys"].percentage > Threshold("duplicated_keys")
        /\ Report["null_keys_error"] <=>
               \/ Report["left_null_keys_in_keys"].percentage > Threshold("null_keys")
               \/ Report["right_null_keys_in_keys"].percentage > Threshold("null_keys")

\* only the left side exceeds either limit
C4_Witness ==
    /\ Live
    /\ Report["left_duplicated_keys_in_keys"].percentage > Threshold("duplicated_keys")
    /\ Report["right_duplicated_keys_in_keys"].percentage <= Threshold("duplicated_keys")
    /\ ~Report["duplicated_keys_error"]
    /\ Report["left_null_keys_in_keys"].percentage > Threshold("null_keys")
    /\ Report["right_null_keys_in_keys"].percentage <= Threshold("null_keys")
    /\ Report["null_keys_error"]

\* the distinct non-null keys of a table, and those held by more than one row
NonNullKeys(df) == KeySet(df) \ {NULL}

RepeatedKeys(df) ==
    {k \in NonNullKeys(df) : \E i, j \in 1..Len(df) : i # j /\ df[i] = k /\ df[j] = k}

Abs(x) == IF x < 0 THEN -x ELSE x

\* pct (model units) is num / den * 100 rounded to a multiple of `unit`
IsRounded(pct, num, den, unit) ==
    /\ pct % unit = 0
    /\ 2 * Abs(pct * den - num * 100 * Scale) <= unit * den

DuplicatedKeysCounted(entry, df) ==
    entry.number = Cardinality(RepeatedKeys(df))

(* C5 as stated: per side, the duplicated-keys number is the count of distinct
   non-null keys held by more than one row, and the percentage is that count
   over the count of distinct non-null keys, times 100. *)
C5_ExactPercentage ==
    Live =>
        /\ DuplicatedKeysCounted(Report["left_duplicated_keys_in_keys"], ctor.left)
        /\ DuplicatedKeysCounted(Report["right_duplicated_keys_in_keys"], ctor.right)
        /\ Report["left_duplicated_keys_in_keys"].percentage * Cardinality(NonNullKeys(ctor.left))
               = Cardinality(RepeatedKeys(ctor.left)) * 100 * Scale
        /\ Report["right_duplicated_keys_in_keys"].percentage * Cardinality(NonNullKeys(ctor.right))
               = Cardinality(RepeatedKeys(ctor.right)) * 100 * Scale

DuplicatedKeysRounded(entry, df) ==
    IF NonNullKeys(df) = {}
    THEN entry.percentage = 0
    ELSE IsRounded(entry.percentage, Cardinality(RepeatedKeys(df)),
                   Cardinality(NonNullKeys(df)), 1)

(* C5 amended: per side, the duplicated-keys number is the count of distinct
   non-null keys held by more than one row (rows with a null key ignored),
   and the percentage is that count over the count of distinct non-null
   keys, times 100, rounded to 4 decimals, and 0 when the side has no
   non-null key. *)
C5_DistinctDuplicatedKeys ==
    Live =>
        /\ DuplicatedKeysCounted(Report["left_duplicated_keys_in_keys"], ctor.left)
        /\ DuplicatedKeysCounted(Report["right_duplicated_keys_in_keys"], ctor.right)
        /\ DuplicatedKeysRounded(Report["left_duplicated_keys_in_keys"], ctor.left)
        /\ DuplicatedKeysRounded(Report["right_duplicated_keys_in_keys"], ctor.right)

\* left keys [A, A, A, B, C]: one duplicated key out of three, 33.3333 %
C5_Witness ==
    /\ Live
    /\ ctor.left = <<1, 1, 1, 2, 3>>
    /\ Report["left_duplicated_keys_in_keys"].number = 1
    /\ Report["left_duplicated_keys_in_keys"].percentage = 333333
    /\ Report["right_duplicated_keys_in_keys"].number = 0

\* the row count the claim expects of a join, None when it names none
ClaimedExpected ==
    CASE How(args.merge_kwargs) = "inner" -> Min(Len(ctor.left), Len(ctor.right))
      [] How(args.merge_kwargs) = "left" -> Len(ctor.left)
      [] How(args.merge_kwargs) = "right" -> Len(ctor.right)
      [] OTHER -> None

ClaimedDuplicated ==
    IF ClaimedExpected # None /\ Report["number_of_rows_after_merge"] > ClaimedExpected
    THEN Report["number_of_rows_after_merge"] - ClaimedExpected
    ELSE 0

RowsCounted ==
    /\ Report["number_of_rows_after_merge"] =
           Cardinality(Merge(ctor.left, ctor.right, args.merge_kwargs))
    /\ Report["number_of_rows_duplicated"] = ClaimedDuplicated

(* C6 as stated: number_of_rows_duplicated is actual - expected when the
   merged row count exceeds expected (min of the sides for inner or omitted
   how, the left rows for left, the right rows for right) and 0 otherwise,
   rows_duplicated_error is true exactly when number_of_rows_duplicated /
   expected * 100 exceeds the rows_duplicated limit, and for outer or an
   unrecognized how the number is always 0. *)
C6_ExactInflation ==
    Analyzed =>
        /\ RowsCounted
        /\ ClaimedExpected # None =>
               (Report["rows_duplicated_error"] <=>
                    ClaimedDuplicated * 100 * Scale >
                        Threshold("rows_duplicated") * ClaimedExpected)

(* C6 amended: as stated, except that rows_duplicated_error is true exactly
   when number_of_rows_duplicated / expected * 100, rounded to 2 decimals,
   exceeds the rows_duplicated limit. *)
C6_RowInflation ==
    Analyzed =>
        /\ RowsCounted
        /\ ClaimedExpected # None =>
               \E p \in {RoundPercent(ClaimedDuplicated, ClaimedExpected, 2)} :
                   /\ IsRounded(p, ClaimedDuplicated, ClaimedExpected, 100)
                   /\ Report["rows_duplicated_error"] <=> p > Threshold("rows_duplicated")

\* left [K1, K1] inner-joined with right [K1]: 2 rows, 1 more than expected
C6_Witness ==
    /\ Analyzed
    /\ ctor.left = <<1, 1>>
    /\ ctor.right = <<1>>
    /\ How(args.merge_kwargs) = "inner"
    /\ Threshold("rows_duplicated") = 0
    /\ Report["number_of_rows_after_merge"] = 2
    /\ Report["number_of_rows_duplicated"] = 1
    /\ Report["rows_duplicated_error"]

Unique(df) == \A i, j \in 1..Len(df) : df[i] = df[j] => i = j

CleanKeys ==
    /\ ctor.left # <<>>
    /\ ctor.right # <<>>
    /\ NULL \notin KeySet(ctor.left) \cup KeySet(ctor.right)
    /\ Unique(ctor.left)
    /\ Unique(ctor.right)
    /\ KeySet(ctor.left) = KeySet(ctor.right)
    /\ "how" \in DOMAIN args.merge_kwargs
    /\ args.merge_kwargs.how = "inner"
    /\ args.error_thresholds = EmptyDict

(* C7: for two non-empty tables with unique non-null keys and equal key sets,
   how='inner' and default thresholds, duplicated_keys_error and
   null_keys_error are false after construction, and after perform_merge
   rows_duplicated_error and matched_keys_error are false,
   percentage_of_matched_keys is 100 and the joined table is returned
   whichever of these flags are selected. *)
C7_CleanKeysNoOp ==
    CleanKeys =>
        /\ result.op = "__init__" =>
               /\ Live
               /\ ~Report["duplicated_keys_error"]
               /\ ~Report["null_keys_error"]
        /\ result.op = "perform_merge" =>
               /\ ~Report["duplicated_keys_error"]
               /\ ~Report["null_keys_error"]
               /\ ~Report["rows_duplicated_error"]
               /\ ~Report["matched_keys_error"]
               /\ ~Report["percentage_of_matched_keys_error"]
               /\ Report["percentage_of_matched_keys"] = Pct(100)
               /\ result.outcome = "returned"
               /\ result.table = self.df_merged
               /\ Cardinality(result.table) = Len(ctor.left)

\* two keys on each side, in different row order, every flag selected
C7_Witness ==
    /\ CleanKeys
    /\ ctor.left = <<1, 2>>
    /\ ctor.right = <<2, 1>>
    /\ args.raise_on_errors = AllFlags
    /\ result.op = "perform_merge"
    /\ result.outcome = "returned"

RowsPercentage ==
    DuplicatedRowsPercentage(ExpectedRowCount(self.merge_kwargs, Report),
                             Report["number_of_rows_after_merge"])

PreJoinFlagsStrict ==
    /\ Report["duplicated_keys_error"] <=>
           /\ Report["left_duplicated_keys_in_keys"].percentage > Threshold("duplicated_keys")
           /\ Report["right_duplicated_keys_in_keys"].percentage > Threshold("duplicated_keys")
    /\ Report["null_keys_error"] <=>
           \/ Report["left_null_keys_in_keys"].percentage > Threshold("null_keys")
           \/ Report["right_null_keys_in_keys"].percentage > Threshold("null_keys")

(* C8 as stated: all four checks compare the computed percentage with `>`
   against the configured limit (the default 0, 0, 100, 0 when the key is
   missing), so that a percentage equal to its limit never sets the flag. *)
C8_AllGreaterThan ==
    Analyzed =>
        /\ PreJoinFlagsStrict
        /\ Report["percentage_of_matched_keys_error"] <=>
               Report["percentage_of_matched_keys"] > Threshold("percentage_matched_keys")
        /\ Report["matched_keys_error"] = Report["percentage_of_matched_keys_error"]
        /\ Report["rows_duplicated_error"] <=> RowsPercentage > Threshold("rows_duplicated")

(* C8 amended: all four checks compare strictly against the configured limit
   (the default 0, 0, 100, 0 when the key is missing): `>` for
   duplicated_keys_error, null_keys_error and rows_duplicated_error, `<` for
   percentage_of_matched_keys_error and its alias matched_keys_error; a
   percentage equal to its limit never sets the flag. *)
C8_StrictComparisons ==
    Analyzed =>
        /\ PreJoinFlagsStrict
        /\ Report["percentage_of_matched_keys_error"] <=>
               Report["percentage_of_matched_keys"] < Threshold("percentage_matched_keys")
        /\ Report["matched_keys_error"] = Report["percentage_of_matched_keys_error"]
        /\ Report["rows_duplicated_error"] <=> RowsPercentage > Threshold("rows_duplicated")
        /\ (\/ Report["left_duplicated_keys_in_keys"].percentage = Threshold("duplicated_keys")
            \/ Report["right_duplicated_keys_in_keys"].percentage = Threshold("duplicated_keys"))
               => ~Report["duplicated_keys_error"]
        /\ (/\ Report["left_null_keys_in_keys"].percentage = Threshold("null_keys")
            /\ Report["right_null_keys_in_keys"].percentage = Threshold("null_keys"))
               => ~Report["null_keys_error"]
        /\ Report["percentage_of_matched_keys"] = Threshold("percentage_matched_keys")
               => ~Report["matched_keys_error"]
        /\ RowsPercentage = Threshold("rows_duplicated") => ~Report["rows_duplicated_error"]

\* every limit at 100 %, left keys [K1, K1] and right [K1]: the left
\* duplicate-key percentage, the match rate and the row inflation are all
\* exactly 100 %, and no flag is set
C8_Witness ==
    /\ Analyzed
    /\ args.error_thresholds = [n \in ThresholdNames |-> Pct(100)]
    /\ Report["left_duplicated_keys_in_keys"].percentage = Pct(100)
    /\ ~Report["duplicated_keys_error"]
    /\ Report["percentage_of_matched_keys"] = Pct(100)
    /\ ~Report["matched_keys_error"]
    /\ RowsPercentage = Pct(100)
    /\ ~Report["rows_duplicated_error"]

\* the report an inspector built over these tables holds after perform_merge
ReportOf(left, right) ==
    LET kw == args.merge_kwargs
        thr == ErrorThresholds(args)
        pre == ChecksAfterDivision(ChecksBeforeDivision(EmptyDict, left, right, kw, thr),
                                   left, right, kw, thr)
        rows == Put(pre, "number_of_rows_after_merge", Cardinality(Merge(left, right, kw)))
    IN  AnalyzeMerge(rows, left, right, self)

\* every call records itself in result.op, so the op of the new state names
\* the step taken
Called(op) == result'.op = op

InspectorStep == Called("__init__") \/ Called("perform_merge") \/ Called("get_report")

(* C9: the inspector works on copies taken at construction: no constructor,
   perform_merge or get_report call changes the caller's tables, and what
   the caller does to its tables after construction changes neither the
   result nor the report of a later perform_merge. *)
C9_WorksOnCopies ==
    [][/\ InspectorStep =>
              /\ frames'[CallerLeft] = frames[CallerLeft]
              /\ frames'[CallerRight] = frames[CallerRight]
       /\ Called("perform_merge") =>
              /\ self'.df_merged = Merge(ctor.left, ctor.right, args.merge_kwargs)
              /\ dicts'[SelfReport] = ReportOf(ctor.left, ctor.right)
              /\ result'.outcome = "returned" => result'.table = self'.df_merged]_vars

\* perform_merge ran after the caller had overwritten both of its tables
C9_Witness ==
    /\ result.op = "perform_merge"
    /\ frames[CallerLeft] # ctor.left
    /\ frames[CallerRight] # ctor.right
    /\ Report["number_of_matched_keys"] > 0

(* C10: the report only accumulates: across perform_merge calls, raising or
   not, no field is removed and the pre-join fields keep their values; once a
   perform_merge has run, a further one leaves the report as it was; a
   reference obtained from get_report before perform_merge shows the
   post-join fields afterwards; get_report changes nothing. *)
C10_ReportAccumulates ==
    [][Live =>
          /\ DOMAIN dicts[SelfReport] \subseteq DOMAIN dicts'[SelfReport]
          /\ \A f \in PreJoinFields : dicts'[SelfReport][f] = dicts[SelfReport][f]
          /\ calls >= 1 => dicts'[SelfReport] = dicts[SelfReport]
          /\ (Called("perform_merge") /\ got.ref # NoRef) =>
                 /\ PostJoinFields \subseteq DOMAIN dicts'[got.ref]
                 /\ dicts'[got.ref] = dicts'[self.report]
          /\ Called("get_report") =>
                 /\ result'.ref = self.report
                 /\ UNCHANGED <<pc, frames, dicts, self, calls>>]_vars

\* a reference taken before the first perform_merge, then two calls that raised
C10_Witness ==
    /\ got.ref # NoRef
    /\ got.early
    /\ calls >= 2
    /\ result.op = "perform_merge"
    /\ RaisedFailure
    /\ PostJoinFields \subseteq DOMAIN dicts[got.ref]

====
